---- MODULE Spec2Model ----
(***************************************************************************)
(* Model of the request orchestration of app/main.py: the single-file     *)
(* handler transcribe (validation, temporary file, transcription,         *)
(* alignment, diarization, cleanup), the batch handler transcribe_batch,  *)
(* the /tmp file namespace the handlers share, and the asyncio event loop *)
(* that runs the handlers (a handler gives up the loop only at an await). *)
(***************************************************************************)
EXTENDS Integers, Sequences, FiniteSets, TLC

\* ------------------------------------------------------------------ bounds
NumTasks == 2
MaxFiles == 2

Tasks == 1..NumTasks
\* The loop is held by a set of at most one task; the batch handler runs as
\* the first task.
NoTask == {}
BatchTask == CHOOSE t \in Tasks : \A u \in Tasks : t <= u

\* ------------------------------------------------------------- input sets
\* Upload filenames; "" is the missing filename. One real name is enough:
\* every upload of that name maps to the same path under /tmp.
Filenames == {"", "a.wav"}
\* Upload contents as byte strings; a first byte 0 stands for audio that the
\* decoder rejects.
Uploads == {<<0>>, <<1>>, <<2, 2>>}
\* Values of os.getenv("HF_TOKEN"); "None" stands for the unset variable.
Tokens == {"None", "", "hf_tok"}

\* ------------------------------------------------------- pure helpers
\* Python truthiness of HF_TOKEN (None and "" are falsy).
Truthy(tok) == tok \notin {"None", ""}

\* f"/tmp/{file.filename}"
TmpPath(filename) == <<"/tmp", filename>>

Paths == {TmpPath(f) : f \in Filenames \ {""}}

NoFile == [exists |-> FALSE, data |-> <<>>]

\* Writing bytes at offset 0 of a file that holds old: the bytes replace
\* the head of the file and any longer tail stays.
WriteAt0(old, bytes) ==
  IF Len(old) > Len(bytes)
  THEN bytes \o SubSeq(old, Len(bytes) + 1, Len(old))
  ELSE bytes

\* whisperx.load_audio succeeds on a file that exists and decodes.
Decodable(f) == f.exists /\ f.data # <<>> /\ f.data[1] # 0

\* The external models, as functions of what they are given.
EmptySegs == [src |-> <<>>, aligned |-> FALSE, speakers |-> FALSE]
RawSegments(audio) == [src |-> audio, aligned |-> FALSE, speakers |-> FALSE]
DetectLanguage(audio) == IF audio[1] = 1 THEN "en" ELSE "fr"
AlignSegments(segs) == [segs EXCEPT !.aligned = TRUE]
WordSegments(segs) == <<segs.src>>
AssignSpeakers(segs) == [segs EXCEPT !.speakers = TRUE]

\* Exceptions in flight.
NoExc == [kind |-> "none", status |-> 0, msg |-> <<>>]
PyError(m) == [kind |-> "Exception", status |-> 0, msg |-> <<m>>]
HTTPException(code, detail) == [kind |-> "HTTPException", status |-> code, msg |-> detail]
StatusText(code) == IF code = 400 THEN "400: " ELSE "500: "
\* str(e): an HTTPException prints as "<status>: <detail>".
Str(e) == IF e.kind = "HTTPException" THEN <<StatusText(e.status)>> \o e.msg ELSE e.msg

\* The response_data dict.
NoDoc == [keys |-> {}, text |-> <<>>, segments |-> EmptySegs, word_segments |-> <<>>,
          diarization |-> EmptySegs, language |-> ""]

NoOutcome == [status |-> 0, detail |-> <<>>, doc |-> NoDoc]
Raised(e) == [status |-> e.status, detail |-> e.msg, doc |-> NoDoc]
Returned(doc) == [status |-> 200, detail |-> <<>>, doc |-> doc]

NoReq == [filename |-> "", bytes |-> <<>>, align |-> FALSE, diarize |-> FALSE]

NoLocals == [audio_path |-> FALSE, fd |-> "none", audio |-> <<>>,
             result |-> EmptySegs, detected_language |-> "",
             result_aligned |-> EmptySegs, aligned_bound |-> FALSE,
             response_data |-> NoDoc, exc |-> NoExc]

NoTrace == [calls |-> <<>>, loaded |-> {}, created |-> {}, faults |-> {},
            wrote |-> FALSE, rmFailed |-> FALSE]

VARIABLES
  HF_TOKEN,   \* the configured credential
  fs,         \* the /tmp namespace: path -> [exists, data]
  running,    \* the task that holds the event loop: {t}, or {}
  pc,         \* each task's position in its handler
  req,        \* each task's current call of transcribe: file and options
  loc,        \* the locals of that call
  trace,      \* what that call did: model calls, models resident, faults met
  outcome,    \* what that call gave its caller
  bpc,        \* transcribe_batch: position of the batch handler ("off": none)
  files,      \* transcribe_batch: the uploaded files
  opts,       \* transcribe_batch: the options applied to every file
  idx,        \* transcribe_batch: files handled so far
  results,    \* transcribe_batch: the results list
  callLog     \* transcribe_batch: filename and outcome of each finished call

vars == <<HF_TOKEN, fs, running, pc, req, loc, trace, outcome,
          bpc, files, opts, idx, results, callLog>>
batchVars == <<bpc, files, opts, idx, results, callLog>>

\* ------------------------------------------------------------ event loop
\* A handler runs only while it holds the loop; it takes a free loop.
HoldsLoop(t) == running \subseteq {t}

Path(t) == TmpPath(req[t].filename)

\* --------------------------------------------------------- transcribe
\* The request reaches the handler.
StartRequest(t) ==
  /\ bpc = "off"
  /\ running = NoTask
  /\ pc[t] = "idle"
  /\ \E f \in Filenames, b \in Uploads, a \in BOOLEAN, d \in BOOLEAN :
       req' = [req EXCEPT ![t] = [filename |-> f, bytes |-> b, align |-> a, diarize |-> d]]
  /\ pc' = [pc EXCEPT ![t] = "validate"]
  /\ running' = {t}
  /\ UNCHANGED <<HF_TOKEN, fs, loc, trace, outcome, batchVars>>

\* The detail of the 400 the two checks raise, <<>> when both pass.
ValidationDiarizeBlind(r, tok) ==
  IF r.filename = "" THEN <<"No file provided">> ELSE <<>>

ValidationError(r, tok) ==
  IF r.filename = "" THEN <<"No file provided">>
  ELSE IF r.diarize /\ ~Truthy(tok)
       THEN <<"Diarization requires HF_TOKEN environment variable to be set">>
       ELSE <<>>

Validate(t) ==
  /\ HoldsLoop(t)
  /\ pc[t] = "validate"
  /\ LET err == ValidationError(req[t], HF_TOKEN) IN
       IF err # <<>>
       THEN /\ outcome' = [outcome EXCEPT ![t] = Raised(HTTPException(400, err))]
            /\ pc' = [pc EXCEPT ![t] = "done"]
       ELSE /\ outcome' = outcome
            /\ pc' = [pc EXCEPT ![t] = "open"]
  /\ running' = {t}
  /\ UNCHANGED <<HF_TOKEN, fs, req, loc, trace, batchVars>>

\* audio_path = ...; open(audio_path, "wb"): creates the file or truncates
\* the one that is there.
Open(t) ==
  /\ HoldsLoop(t)
  /\ pc[t] = "open"
  /\ running' = {t}
  /\ \E ok \in BOOLEAN :
       IF ok
       THEN /\ fs' = [fs EXCEPT ![Path(t)] = [exists |-> TRUE, data |-> <<>>]]
            /\ loc' = [loc EXCEPT ![t].audio_path = TRUE, ![t].fd = "linked"]
            /\ trace' = trace
            /\ pc' = [pc EXCEPT ![t] = "read"]
       ELSE /\ fs' = fs
            /\ loc' = [loc EXCEPT ![t].audio_path = TRUE,
                                  ![t].exc = PyError("open failed")]
            /\ trace' = [trace EXCEPT ![t].faults = @ \cup {"open"}]
            /\ pc' = [pc EXCEPT ![t] = "except"]
  /\ UNCHANGED <<HF_TOKEN, req, outcome, batchVars>>

\* await file.read(): the one await of the handler; the loop may run
\* another handler before this one goes on.
Read(t) ==
  /\ HoldsLoop(t)
  /\ pc[t] = "read"
  /\ \E y \in BOOLEAN : running' = IF y THEN NoTask ELSE {t}
  /\ pc' = [pc EXCEPT ![t] = "write"]
  /\ UNCHANGED <<HF_TOKEN, fs, req, loc, trace, outcome, batchVars>>

\* f.write(...) and the end of the with block. The bytes go to the file the
\* descriptor was opened on, which is the file at audio_path only while
\* nobody has removed it.
Write(t) ==
  /\ HoldsLoop(t)
  /\ pc[t] = "write"
  /\ running' = {t}
  /\ \E ok \in BOOLEAN :
       IF ok
       THEN /\ fs' = IF loc[t].fd = "linked"
                     THEN [fs EXCEPT ![Path(t)].data = WriteAt0(@, req[t].bytes)]
                     ELSE fs
            /\ loc' = [loc EXCEPT ![t].fd = "none"]
            /\ trace' = [trace EXCEPT ![t].wrote = TRUE]
            /\ pc' = [pc EXCEPT ![t] = "load_audio"]
       ELSE /\ fs' = fs
            /\ loc' = [loc EXCEPT ![t].fd = "none", ![t].exc = PyError("write failed")]
            /\ trace' = [trace EXCEPT ![t].faults = @ \cup {"write"}]
            /\ pc' = [pc EXCEPT ![t] = "except"]
  /\ UNCHANGED <<HF_TOKEN, req, outcome, batchVars>>

\* audio = whisperx.load_audio(audio_path)
LoadAudio(t) ==
  /\ HoldsLoop(t)
  /\ pc[t] = "load_audio"
  /\ running' = {t}
  /\ IF Decodable(fs[Path(t)])
     THEN /\ loc' = [loc EXCEPT ![t].audio = fs[Path(t)].data]
          /\ trace' = trace
          /\ pc' = [pc EXCEPT ![t] = "transcribe"]
     ELSE /\ loc' = [loc EXCEPT ![t].exc = PyError("Failed to load audio")]
          /\ trace' = [trace EXCEPT ![t].faults = @ \cup {"decode"}]
          /\ pc' = [pc EXCEPT ![t] = "except"]
  /\ UNCHANGED <<HF_TOKEN, fs, req, outcome, batchVars>>

\* The stage that follows transcription, and the one that follows alignment.
AfterAlign(r) == IF r.diarize THEN "diar_init" ELSE "return"
AfterTranscribe(r) == IF r.align THEN "load_align" ELSE AfterAlign(r)

\* result = model.transcribe(...) and the first response_data.
Transcribe(t) ==
  /\ HoldsLoop(t)
  /\ pc[t] = "transcribe"
  /\ running' = {t}
  /\ \E ok \in BOOLEAN :
       IF ok
       THEN /\ loc' = [loc EXCEPT
                 ![t].result = RawSegments(loc[t].audio),
                 ![t].detected_language = DetectLanguage(loc[t].audio),
                 ![t].response_data =
                    [NoDoc EXCEPT !.keys = {"text", "segments", "language"},
                                  !.text = loc[t].audio,
                                  !.segments = RawSegments(loc[t].audio),
                                  !.language = DetectLanguage(loc[t].audio)]]
            /\ trace' = [trace EXCEPT ![t].calls = Append(@, "transcribe")]
            /\ pc' = [pc EXCEPT ![t] = AfterTranscribe(req[t])]
       ELSE /\ loc' = [loc EXCEPT ![t].exc = PyError("transcribe failed")]
            /\ trace' = [trace EXCEPT ![t].calls = Append(@, "transcribe"),
                                      ![t].faults = @ \cup {"transcribe"}]
            /\ pc' = [pc EXCEPT ![t] = "except"]
  /\ UNCHANGED <<HF_TOKEN, fs, req, outcome, batchVars>>

\* model_a, metadata = whisperx.load_align_model(...)
LoadAlignModel(t) ==
  /\ HoldsLoop(t)
  /\ pc[t] = "load_align"
  /\ running' = {t}
  /\ \E ok \in BOOLEAN :
       IF ok
       THEN /\ loc' = loc
            /\ trace' = [trace EXCEPT ![t].calls = Append(@, "load_align_model"),
                                      ![t].loaded = @ \cup {"model_a"},
                                      ![t].created = @ \cup {"model_a"}]
            /\ pc' = [pc EXCEPT ![t] = "align"]
       ELSE /\ loc' = [loc EXCEPT ![t].exc = PyError("load_align_model failed")]
            /\ trace' = [trace EXCEPT ![t].calls = Append(@, "load_align_model"),
                                      ![t].faults = @ \cup {"load_align_model"}]
            /\ pc' = [pc EXCEPT ![t] = "align_except"]
  /\ UNCHANGED <<HF_TOKEN, fs, req, outcome, batchVars>>

\* result_aligned = whisperx.align(...) and the two response_data updates.
Align(t) ==
  /\ HoldsLoop(t)
  /\ pc[t] = "align"
  /\ running' = {t}
  /\ \E ok \in BOOLEAN :
       IF ok
       THEN /\ loc' = [loc EXCEPT
                 ![t].result_aligned = AlignSegments(loc[t].result),
                 ![t].aligned_bound = TRUE,
                 ![t].response_data =
                    [@ EXCEPT !.keys = @ \cup {"word_segments"},
                              !.word_segments = WordSegments(AlignSegments(loc[t].result)),
                              !.segments = AlignSegments(loc[t].result)]]
            /\ trace' = [trace EXCEPT ![t].calls = Append(@, "align")]
            /\ pc' = [pc EXCEPT ![t] = "align_release"]
       ELSE /\ loc' = [loc EXCEPT ![t].exc = PyError("align failed")]
            /\ trace' = [trace EXCEPT ![t].calls = Append(@, "align"),
                                      ![t].faults = @ \cup {"align"}]
            /\ pc' = [pc EXCEPT ![t] = "align_except"]
  /\ UNCHANGED <<HF_TOKEN, fs, req, outcome, batchVars>>

\* del model_a; gc.collect(); torch.cuda.empty_cache()
ReleaseAlignModel(t) ==
  /\ HoldsLoop(t)
  /\ pc[t] = "align_release"
  /\ running' = {t}
  /\ trace' = [trace EXCEPT ![t].loaded = @ \ {"model_a"}]
  /\ pc' = [pc EXCEPT ![t] = AfterAlign(req[t])]
  /\ UNCHANGED <<HF_TOKEN, fs, req, loc, outcome, batchVars>>

\* Where the handler goes on after the alignment stage raised.
AfterAlignFailureRetry(r) == "load_align"

AfterAlignFailure(r) == AfterAlign(r)

\* except Exception of the alignment stage: the exception is dropped.
AlignExcept(t) ==
  /\ HoldsLoop(t)
  /\ pc[t] = "align_except"
  /\ running' = {t}
  /\ loc' = [loc EXCEPT
       ![t].exc = NoExc,
       ![t].response_data = [@ EXCEPT !.keys = @ \cup {"word_segments"},
                                      !.word_segments = <<>>]]
  /\ pc' = [pc EXCEPT ![t] = AfterAlignFailure(req[t])]
  /\ UNCHANGED <<HF_TOKEN, fs, req, trace, outcome, batchVars>>

\* diarize_model = whisperx.DiarizationPipeline(...)
DiarizationPipeline(t) ==
  /\ HoldsLoop(t)
  /\ pc[t] = "diar_init"
  /\ running' = {t}
  /\ \E ok \in BOOLEAN :
       IF ok
       THEN /\ loc' = loc
            /\ trace' = [trace EXCEPT ![t].calls = Append(@, "DiarizationPipeline"),
                                      ![t].loaded = @ \cup {"diarize_model"},
                                      ![t].created = @ \cup {"diarize_model"}]
            /\ pc' = [pc EXCEPT ![t] = "diar_run"]
       ELSE /\ loc' = [loc EXCEPT ![t].exc = PyError("DiarizationPipeline failed")]
            /\ trace' = [trace EXCEPT ![t].calls = Append(@, "DiarizationPipeline"),
                                      ![t].faults = @ \cup {"DiarizationPipeline"}]
            /\ pc' = [pc EXCEPT ![t] = "diar_except"]
  /\ UNCHANGED <<HF_TOKEN, fs, req, outcome, batchVars>>

\* diarize_segments = diarize_model(audio)
Diarize(t) ==
  /\ HoldsLoop(t)
  /\ pc[t] = "diar_run"
  /\ running' = {t}
  /\ \E ok \in BOOLEAN :
       IF ok
       THEN /\ loc' = loc
            /\ trace' = [trace EXCEPT ![t].calls = Append(@, "diarize_model")]
            /\ pc' = [pc EXCEPT ![t] = "assign"]
       ELSE /\ loc' = [loc EXCEPT ![t].exc = PyError("diarize_model failed")]
            /\ trace' = [trace EXCEPT ![t].calls = Append(@, "diarize_model"),
                                      ![t].faults = @ \cup {"diarize_model"}]
            /\ pc' = [pc EXCEPT ![t] = "diar_except"]
  /\ UNCHANGED <<HF_TOKEN, fs, req, outcome, batchVars>>

\* result_aligned if align else result: the transcript the speakers are
\* assigned to; result_aligned is a local that only a finished align binds.
SpeakerSourceRaw(r, l) == [bound |-> TRUE, segs |-> l.result]

SpeakerSource(r, l) ==
  IF r.align THEN [bound |-> l.aligned_bound, segs |-> l.result_aligned]
  ELSE [bound |-> TRUE, segs |-> l.result]

\* result_diarized = whisperx.assign_word_speakers(...) and the two
\* response_data updates.
AssignWordSpeakers(t) ==
  /\ HoldsLoop(t)
  /\ pc[t] = "assign"
  /\ running' = {t}
  /\ LET src == SpeakerSource(req[t], loc[t]) IN
       IF ~src.bound
       THEN /\ loc' = [loc EXCEPT ![t].exc =
                 PyError("cannot access local variable 'result_aligned'")]
            /\ trace' = [trace EXCEPT ![t].faults = @ \cup {"UnboundLocalError"}]
            /\ pc' = [pc EXCEPT ![t] = "diar_except"]
       ELSE \E ok \in BOOLEAN :
         IF ok
         THEN /\ loc' = [loc EXCEPT ![t].response_data =
                   [@ EXCEPT !.keys = @ \cup {"diarization"},
                             !.diarization = AssignSpeakers(src.segs),
                             !.segments = AssignSpeakers(src.segs)]]
              /\ trace' = [trace EXCEPT ![t].calls = Append(@, "assign_word_speakers")]
              /\ pc' = [pc EXCEPT ![t] = "diar_release"]
         ELSE /\ loc' = [loc EXCEPT ![t].exc = PyError("assign_word_speakers failed")]
              /\ trace' = [trace EXCEPT ![t].calls = Append(@, "assign_word_speakers"),
                                        ![t].faults = @ \cup {"assign_word_speakers"}]
              /\ pc' = [pc EXCEPT ![t] = "diar_except"]
  /\ UNCHANGED <<HF_TOKEN, fs, req, outcome, batchVars>>

\* del diarize_model; gc.collect(); torch.cuda.empty_cache()
ReleaseDiarizeModel(t) ==
  /\ HoldsLoop(t)
  /\ pc[t] = "diar_release"
  /\ running' = {t}
  /\ trace' = [trace EXCEPT ![t].loaded = @ \ {"diarize_model"}]
  /\ pc' = [pc EXCEPT ![t] = "return"]
  /\ UNCHANGED <<HF_TOKEN, fs, req, loc, outcome, batchVars>>

\* What the except clause of the diarization stage leaves in flight.
DiarizationFailureNoMessage(e) == HTTPException(500, <<"Diarization failed">>)

DiarizationFailure(e) == HTTPException(500, <<"Diarization failed: ">> \o Str(e))

\* except Exception of the diarization stage.
DiarExcept(t) ==
  /\ HoldsLoop(t)
  /\ pc[t] = "diar_except"
  /\ running' = {t}
  /\ loc' = [loc EXCEPT ![t].exc = DiarizationFailure(loc[t].exc)]
  /\ pc' = [pc EXCEPT ![t] = "except"]
  /\ UNCHANGED <<HF_TOKEN, fs, req, trace, outcome, batchVars>>

\* return JSONResponse(content=response_data)
Return(t) ==
  /\ HoldsLoop(t)
  /\ pc[t] = "return"
  /\ running' = {t}
  /\ outcome' = [outcome EXCEPT ![t] = Returned(loc[t].response_data)]
  /\ pc' = [pc EXCEPT ![t] = "finally"]
  /\ UNCHANGED <<HF_TOKEN, fs, req, loc, trace, batchVars>>

\* The outer except Exception: every exception of the try block, the
\* HTTPException of the diarization stage included, becomes a 500.
Except(t) ==
  /\ HoldsLoop(t)
  /\ pc[t] = "except"
  /\ running' = {t}
  /\ LET e == HTTPException(500, <<"Processing failed: ">> \o Str(loc[t].exc)) IN
       /\ loc' = [loc EXCEPT ![t].exc = e]
       /\ outcome' = [outcome EXCEPT ![t] = Raised(e)]
  /\ pc' = [pc EXCEPT ![t] = "finally"]
  /\ UNCHANGED <<HF_TOKEN, fs, req, trace, batchVars>>

\* if audio_path and os.path.exists(audio_path)
NoCleanup(l, f) == FALSE

NeedsCleanup(l, f) == l.audio_path /\ f.exists

\* What the caller gets once the finally block has run: the inner except
\* drops the exception of os.remove.
CleanupEscalates(pending, removeRaised) ==
  IF removeRaised
  THEN Raised(HTTPException(500, <<"Could not remove temporary file">>))
  ELSE pending

CleanupOutcome(pending, removeRaised) == pending

\* The finally block. Removing the file unlinks it for every descriptor
\* still open on it.
Finally(t) ==
  /\ HoldsLoop(t)
  /\ pc[t] = "finally"
  /\ running' = {t}
  /\ IF NeedsCleanup(loc[t], fs[Path(t)])
     THEN \E ok \in BOOLEAN :
       IF ok
       THEN /\ fs' = [fs EXCEPT ![Path(t)] = NoFile]
            /\ loc' = [u \in Tasks |->
                 IF Path(u) = Path(t) /\ loc[u].fd = "linked"
                 THEN [loc[u] EXCEPT !.fd = "orphan"] ELSE loc[u]]
            /\ trace' = trace
            /\ outcome' = [outcome EXCEPT ![t] = CleanupOutcome(@, FALSE)]
       ELSE /\ fs' = fs
            /\ loc' = loc
            /\ trace' = [trace EXCEPT ![t].rmFailed = TRUE]
            /\ outcome' = [outcome EXCEPT ![t] = CleanupOutcome(@, TRUE)]
     ELSE /\ UNCHANGED <<fs, loc, trace>>
          /\ outcome' = [outcome EXCEPT ![t] = CleanupOutcome(@, FALSE)]
  /\ pc' = [pc EXCEPT ![t] = "done"]
  /\ UNCHANGED <<HF_TOKEN, req, batchVars>>

\* The framework sends the response; the call's frame is gone.
Respond(t) ==
  /\ bpc = "off"
  /\ HoldsLoop(t)
  /\ pc[t] = "done"
  /\ pc' = [pc EXCEPT ![t] = "idle"]
  /\ req' = [req EXCEPT ![t] = NoReq]
  /\ loc' = [loc EXCEPT ![t] = NoLocals]
  /\ trace' = [trace EXCEPT ![t] = NoTrace]
  /\ outcome' = [outcome EXCEPT ![t] = NoOutcome]
  /\ running' = NoTask
  /\ UNCHANGED <<HF_TOKEN, fs, batchVars>>

\* One step of a call of transcribe.
Call(t) ==
  \/ Validate(t) \/ Open(t) \/ Read(t) \/ Write(t) \/ LoadAudio(t) \/ Transcribe(t)
  \/ LoadAlignModel(t) \/ Align(t) \/ ReleaseAlignModel(t) \/ AlignExcept(t)
  \/ DiarizationPipeline(t) \/ Diarize(t) \/ AssignWordSpeakers(t)
  \/ ReleaseDiarizeModel(t) \/ DiarExcept(t)
  \/ Return(t) \/ Except(t) \/ Finally(t)

InitCommon ==
  /\ HF_TOKEN \in Tokens
  /\ fs = [p \in Paths |-> NoFile]
  /\ running = NoTask
  /\ pc = [t \in Tasks |-> "idle"]
  /\ req = [t \in Tasks |-> NoReq]
  /\ loc = [t \in Tasks |-> NoLocals]
  /\ trace = [t \in Tasks |-> NoTrace]
  /\ outcome = [t \in Tasks |-> NoOutcome]
  /\ files = <<>>
  /\ opts = [align |-> FALSE, diarize |-> FALSE]
  /\ idx = 0
  /\ results = <<>>
  /\ callLog = <<>>

\* Concurrent single-file requests.
Init == InitCommon /\ bpc = "off"

Next == \E t \in Tasks : StartRequest(t) \/ Call(t) \/ Respond(t)

Spec == Init /\ [][Next]_vars

\* ---------------------------------------------------- transcribe_batch
UploadFiles == [filename : Filenames, bytes : Uploads]
FileLists == UNION {[1..n -> UploadFiles] : n \in 0..MaxFiles}

\* The batch request reaches the handler: results = [].
BatchStart ==
  /\ bpc = "idle"
  /\ \E fl \in FileLists, a \in BOOLEAN, d \in BOOLEAN :
       /\ files' = fl
       /\ opts' = [align |-> a, diarize |-> d]
  /\ bpc' = "loop"
  /\ UNCHANGED <<HF_TOKEN, fs, running, pc, req, loc, trace, outcome, idx, results, callLog>>

\* for file in files: the loop ends when the files are used up.
BatchStopsOnError(i, fl, rs) ==
  i = Len(fl) \/ (rs # <<>> /\ rs[Len(rs)].status = "error")

BatchLoopDone(i, fl, rs) == i = Len(fl)

\* await transcribe(file, align, diarize, language)
BatchCall ==
  /\ bpc = "loop"
  /\ ~BatchLoopDone(idx, files, results)
  /\ HoldsLoop(BatchTask)
  /\ pc[BatchTask] = "idle"
  /\ req' = [req EXCEPT ![BatchTask] =
       [filename |-> files[idx + 1].filename, bytes |-> files[idx + 1].bytes,
        align |-> opts.align, diarize |-> opts.diarize]]
  /\ pc' = [pc EXCEPT ![BatchTask] = "validate"]
  /\ running' = {BatchTask}
  /\ bpc' = "await_call"
  /\ UNCHANGED <<HF_TOKEN, fs, loc, trace, outcome, files, opts, idx, results, callLog>>

\* The entry appended for one file: the try branch or the except branch.
BatchEntry(fname, o) ==
  IF o.status = 200
  THEN [filename |-> fname, status |-> "success", result |-> o.doc, error |-> <<>>]
  ELSE [filename |-> fname, status |-> "error", result |-> NoDoc,
        error |-> <<StatusText(o.status)>> \o o.detail]

\* The call came back: results.append(...), next file.
BatchCollect ==
  /\ bpc = "await_call"
  /\ HoldsLoop(BatchTask)
  /\ pc[BatchTask] = "done"
  /\ results' = Append(results, BatchEntry(req[BatchTask].filename, outcome[BatchTask]))
  /\ callLog' = Append(callLog, [filename |-> req[BatchTask].filename,
                                 bytes |-> req[BatchTask].bytes,
                                 outcome |-> outcome[BatchTask]])
  /\ idx' = idx + 1
  /\ pc' = [pc EXCEPT ![BatchTask] = "idle"]
  /\ req' = [req EXCEPT ![BatchTask] = NoReq]
  /\ loc' = [loc EXCEPT ![BatchTask] = NoLocals]
  /\ trace' = [trace EXCEPT ![BatchTask] = NoTrace]
  /\ outcome' = [outcome EXCEPT ![BatchTask] = NoOutcome]
  /\ running' = {BatchTask}
  /\ bpc' = "loop"
  /\ UNCHANGED <<HF_TOKEN, fs, files, opts>>

\* return {"results": results}
BatchReturn ==
  /\ bpc = "loop"
  /\ BatchLoopDone(idx, files, results)
  /\ bpc' = "done"
  /\ running' = NoTask
  /\ UNCHANGED <<HF_TOKEN, fs, pc, req, loc, trace, outcome, files, opts, idx, results, callLog>>

\* One batch request, its files handled one after the other.
InitBatch == InitCommon /\ bpc = "idle"

NextBatch ==
  \/ BatchStart
  \/ BatchCall
  \/ Call(BatchTask)
  \/ BatchCollect
  \/ BatchReturn

SpecBatch == InitBatch /\ [][NextBatch]_vars

\* ================================================================ claims
Done(t) == pc[t] = "done"
NoFilename(t) == req[t].filename = ""
NoCredential == HF_TOKEN \in {"None", ""}
Rejected(t) == NoFilename(t) \/ (req[t].diarize /\ NoCredential)
AlignFaults == {"load_align_model", "align"}
DiarFaults == {"DiarizationPipeline", "diarize_model", "assign_word_speakers"}
FaultMessage(f) ==
  IF f = "DiarizationPipeline" THEN "DiarizationPipeline failed"
  ELSE IF f = "diarize_model" THEN "diarize_model failed"
  ELSE "assign_word_speakers failed"

\* C1 (as stated): whenever a call of transcribe that passed both validation
\* checks completes, no file exists at /tmp/<filename>, whatever the exit path.
C1_TempFileAbsentOnEveryExit ==
  \A t \in Tasks : (Done(t) /\ ~Rejected(t)) => ~fs[Path(t)].exists

\* C1 (amended): whenever a call of transcribe that passed both validation
\* checks completes, no file exists at /tmp/<filename>, unless os.remove raised
\* in the cleanup, in which case the file is left behind.
C1_TempFileAbsentUnlessRemoveRaised ==
  \A t \in Tasks :
    (Done(t) /\ ~Rejected(t)) => (~fs[Path(t)].exists \/ trace[t].rmFailed)

C1_Witness ==
  \E t \in Tasks :
    /\ Done(t) /\ trace[t].wrote /\ ~trace[t].rmFailed
    /\ "load_align_model" \in trace[t].faults
    /\ outcome[t].status = 200
    /\ ~fs[Path(t)].exists

\* C2: when alignment is requested and only the alignment stage raises, the
\* call returns a 200 document with word_segments = [] and the unaligned
\* segments (or those segments with speakers), whatever diarize is.
C2_AlignmentFailureNeverFailsRequest ==
  \A t \in Tasks :
    (/\ Done(t) /\ req[t].align
     /\ trace[t].faults \cap AlignFaults # {}
     /\ trace[t].faults \ {"UnboundLocalError"} \subseteq AlignFaults)
    => /\ outcome[t].status = 200
       /\ "word_segments" \in outcome[t].doc.keys
       /\ outcome[t].doc.word_segments = <<>>
       /\ outcome[t].doc.segments \in
            {RawSegments(loc[t].audio), AssignSpeakers(RawSegments(loc[t].audio))}

\* C3: a request without a filename, or with diarize=true and no credential,
\* never gets past validation: it opens and writes no file, calls and creates
\* no model, and completes with a 400.
C3_RejectedBeforeAnyWork ==
  \A t \in Tasks :
    (pc[t] # "idle" /\ Rejected(t)) =>
      /\ pc[t] \in {"validate", "done"}
      /\ ~loc[t].audio_path /\ loc[t].fd = "none" /\ ~trace[t].wrote
      /\ trace[t].calls = <<>> /\ trace[t].created = {}
      /\ Done(t) => (outcome[t].status = 400 /\ outcome[t].doc = NoDoc)

C3_Witness ==
  \E t \in Tasks :
    /\ Done(t) /\ ~NoFilename(t) /\ req[t].diarize /\ HF_TOKEN = ""
    /\ outcome[t].status = 400
    /\ \E u \in Tasks : u # t /\ pc[u] = "write"

\* C4: the batch handler returns one entry per uploaded file, in upload order;
\* an entry is an error with a message exactly when the call for that file
\* raised, otherwise a success with that call's document, which is the
\* transcription of that file's own bytes; no failure ends the loop early.
C4_BatchOneEntryPerFile ==
  /\ Len(results) = idx /\ Len(callLog) = idx /\ idx <= Len(files)
  /\ \A i \in 1..Len(results) :
       /\ results[i].filename = files[i].filename
       /\ callLog[i].filename = files[i].filename
       /\ callLog[i].bytes = files[i].bytes
       /\ results[i].status \in {"success", "error"}
       /\ (results[i].status = "error") <=> (callLog[i].outcome.status # 200)
       /\ results[i].status = "error" =>
            /\ results[i].error # <<>>
            /\ results[i].error =
                 <<StatusText(callLog[i].outcome.status)>> \o callLog[i].outcome.detail
       /\ results[i].status = "success" =>
            /\ results[i].result = callLog[i].outcome.doc
            /\ results[i].result.text = files[i].bytes
  /\ bpc = "done" => Len(results) = Len(files)

C4_Witness ==
  /\ bpc = "done" /\ Len(files) = 2
  /\ results[1].status = "error" /\ callLog[1].outcome.status = 500
  /\ results[2].status = "success"

\* C5 (as stated): when diarization is requested with a credential and the
\* diarization stage raises, the call fails with a 500 whose detail carries the
\* exception's message, returns no document, and leaves no temporary file.
C5_DiarizationFailureFatalFileGone ==
  \A t \in Tasks :
    (Done(t) /\ req[t].diarize /\ trace[t].faults \cap DiarFaults # {}) =>
      /\ outcome[t].status = 500 /\ outcome[t].doc = NoDoc
      /\ \E f \in trace[t].faults \cap DiarFaults :
           outcome[t].detail =
             <<"Processing failed: ", "500: ", "Diarization failed: ", FaultMessage(f)>>
      /\ ~fs[Path(t)].exists

\* C5 (amended): when diarization is requested with a credential and the
\* diarization stage raises, the call fails with a 500 whose detail carries the
\* exception's message and returns no document; the temporary file is gone
\* unless os.remove raised in the cleanup.
C5_DiarizationFailureFatal ==
  \A t \in Tasks :
    (Done(t) /\ req[t].diarize /\ trace[t].faults \cap DiarFaults # {}) =>
      /\ outcome[t].status = 500 /\ outcome[t].doc = NoDoc
      /\ \E f \in trace[t].faults \cap DiarFaults :
           outcome[t].detail =
             <<"Processing failed: ", "500: ", "Diarization failed: ", FaultMessage(f)>>
      /\ ~fs[Path(t)].exists \/ trace[t].rmFailed

C5_Witness ==
  \E t \in Tasks :
    /\ Done(t) /\ req[t].align /\ req[t].diarize
    /\ loc[t].aligned_bound /\ "diarize_model" \in trace[t].faults
    /\ outcome[t].status = 500
    /\ ~fs[Path(t)].exists

\* C6: the segments of every returned document come from the most refined
\* stage that finished: speakers assigned on top of the aligned segments (or
\* of the raw ones when alignment was not requested) if diarization ran,
\* else the aligned segments if alignment finished, else the raw segments.
AlignmentFinished(t) == req[t].align /\ trace[t].faults \cap AlignFaults = {}

C6_SegmentsMostRefined ==
  \A t \in Tasks :
    (Done(t) /\ outcome[t].status = 200) =>
      LET raw == RawSegments(loc[t].audio)
          best == IF AlignmentFinished(t) THEN AlignSegments(raw) ELSE raw
      IN outcome[t].doc.segments =
           IF req[t].diarize THEN AssignSpeakers(best) ELSE best

C6_Witness ==
  \E t \in Tasks :
    /\ Done(t) /\ outcome[t].status = 200 /\ req[t].align /\ req[t].diarize
    /\ outcome[t].doc.segments.aligned /\ outcome[t].doc.segments.speakers

\* What a call of transcribe gives when no other request is in flight, from
\* its upload, its options and the faults its stages met.
Failure500(m) == [status |-> 500, detail |-> <<"Processing failed: ">> \o m, doc |-> NoDoc]

SoloDocument(r, F) ==
  LET raw == RawSegments(r.bytes)
      base == [NoDoc EXCEPT !.keys = {"text", "segments", "language"},
                            !.text = r.bytes, !.segments = raw,
                            !.language = DetectLanguage(r.bytes)]
      afterAlign ==
        IF ~r.align THEN base
        ELSE IF F \cap AlignFaults = {}
             THEN [base EXCEPT !.keys = @ \cup {"word_segments"},
                               !.word_segments = <<r.bytes>>,
                               !.segments = AlignSegments(raw)]
             ELSE [base EXCEPT !.keys = @ \cup {"word_segments"}]
  IN IF ~r.diarize THEN afterAlign
     ELSE [afterAlign EXCEPT !.keys = @ \cup {"diarization"},
                             !.diarization = AssignSpeakers(afterAlign.segments),
                             !.segments = AssignSpeakers(afterAlign.segments)]

SoloOutcome(r, F, tok) ==
  IF r.filename = ""
  THEN [status |-> 400, detail |-> <<"No file provided">>, doc |-> NoDoc]
  ELSE IF r.diarize /\ tok \in {"None", ""}
  THEN [status |-> 400, doc |-> NoDoc,
        detail |-> <<"Diarization requires HF_TOKEN environment variable to be set">>]
  ELSE IF "open" \in F THEN Failure500(<<"open failed">>)
  ELSE IF "write" \in F THEN Failure500(<<"write failed">>)
  ELSE IF r.bytes[1] = 0 THEN Failure500(<<"Failed to load audio">>)
  ELSE IF "transcribe" \in F THEN Failure500(<<"transcribe failed">>)
  ELSE IF ~r.diarize THEN Returned(SoloDocument(r, F))
  ELSE IF "DiarizationPipeline" \in F
  THEN Failure500(<<"500: ", "Diarization failed: ", "DiarizationPipeline failed">>)
  ELSE IF "diarize_model" \in F
  THEN Failure500(<<"500: ", "Diarization failed: ", "diarize_model failed">>)
  ELSE IF r.align /\ F \cap AlignFaults # {}
  THEN Failure500(<<"500: ", "Diarization failed: ",
                    "cannot access local variable 'result_aligned'">>)
  ELSE IF "assign_word_speakers" \in F
  THEN Failure500(<<"500: ", "Diarization failed: ", "assign_word_speakers failed">>)
  ELSE Returned(SoloDocument(r, F))

\* C7: whatever the interleaving of concurrent calls of transcribe, each call
\* gives its caller what it would have given had it run alone.
C7_OutcomeAsIfAlone ==
  \A t \in Tasks :
    Done(t) => outcome[t] = SoloOutcome(req[t], trace[t].faults, HF_TOKEN)

\* C8: every alignment or diarization model a call created has been released
\* (del, gc.collect, empty_cache) once its stage is over: none is resident
\* when the next stage starts or when the call completes.
C8_ModelsReleasedOnEveryPath ==
  \A t \in Tasks :
    /\ pc[t] \in {"diar_init", "diar_run", "assign", "diar_release", "diar_except"}
         => "model_a" \notin trace[t].loaded
    /\ pc[t] \in {"return", "except", "finally", "done"} => trace[t].loaded = {}

\* C9: in one call the model calls are made in the order transcribe,
\* load_align_model, align, DiarizationPipeline, diarize_model,
\* assign_word_speakers, none of them twice; the alignment calls only with
\* align, the diarization calls only with diarize; a call that returns a
\* document made every call its options ask for.
Rank(c) ==
  IF c = "transcribe" THEN 1
  ELSE IF c = "load_align_model" THEN 2
  ELSE IF c = "align" THEN 3
  ELSE IF c = "DiarizationPipeline" THEN 4
  ELSE IF c = "diarize_model" THEN 5
  ELSE 6

CallsOf(t) == {trace[t].calls[i] : i \in 1..Len(trace[t].calls)}

C9_StagesInOrderOnce ==
  \A t \in Tasks :
    LET cs == trace[t].calls IN
    /\ \A i \in 1..Len(cs) : \A j \in 1..Len(cs) : i < j => Rank(cs[i]) < Rank(cs[j])
    /\ cs # <<>> => cs[1] = "transcribe"
    /\ CallsOf(t) \cap AlignFaults # {} => req[t].align
    /\ CallsOf(t) \cap DiarFaults # {} => req[t].diarize
    /\ "align" \in CallsOf(t) => "load_align_model" \in CallsOf(t)
    /\ "assign_word_speakers" \in CallsOf(t) =>
         {"DiarizationPipeline", "diarize_model"} \subseteq CallsOf(t)
    /\ (Done(t) /\ outcome[t].status = 200) =>
         /\ "transcribe" \in CallsOf(t)
         /\ req[t].align => "load_align_model" \in CallsOf(t)
         /\ req[t].diarize => DiarFaults \subseteq CallsOf(t)

C9_Witness ==
  \E t \in Tasks :
    /\ Done(t)
    /\ trace[t].calls = <<"transcribe", "load_align_model", "align",
                          "DiarizationPipeline", "diarize_model", "assign_word_speakers">>

\* C10: a call that went through the cleanup gives its caller exactly the
\* document it returned or the HTTPException it raised before the cleanup,
\* whether or not os.remove raised.
C10_CleanupFailureNotSurfaced ==
  \A t \in Tasks :
    (Done(t) /\ loc[t].audio_path) =>
      outcome[t] = IF loc[t].exc.kind = "none"
                   THEN Returned(loc[t].response_data)
                   ELSE Raised(loc[t].exc)

C10_Witness ==
  \E t \in Tasks :
    /\ Done(t) /\ trace[t].rmFailed /\ fs[Path(t)].exists
    /\ outcome[t].status = 200 /\ ~req[t].align /\ ~req[t].diarize

====
